---- MODULE Spec2Model ----
(***************************************************************************)
(* Periodic-boundary numerical integration kernels of pbc/dft/numint.py:   *)
(* eval_ao (Bloch-phase image sum), eval_rho (density from complex         *)
(* orbitals), eval_mat (XC potential matrix) and the k-point adapter       *)
(* _NumInt.                                                                *)
(*                                                                         *)
(* SpecAO, SpecRho and SpecMat draw the arguments of one call of a kernel  *)
(* and apply it; Spec is the adapter under any sequence of method calls.   *)
(* The host library (pyscf.dft.numint: the real-space evaluator, the       *)
(* contraction primitives _dot_ao_dm and _dot_ao_ao, the real eval_mat and *)
(* the driver nr_rks_vxc) is modelled by the Host* operators, dot_ao_dm    *)
(* and dot_ao_ao.                                                          *)
(*                                                                         *)
(* Numbers.  Floating-point values are modelled by small integers, on      *)
(* which IEEE arithmetic is exact.  A complex number is a pair <<re, im>>. *)
(* Grid weights are even integers, so that the factor .5 of eval_mat is    *)
(* exact.                                                                  *)
(* A k-point is a vector q of integers standing for k = q * pi/2, so that  *)
(* exp(1j*k.L) is a power of the imaginary unit.                           *)
(***************************************************************************)
EXTENDS Integers, Sequences, FiniteSets, TLC

VARIABLES kpt, op, args, ret, Ts, hostCalls, aoR

vars == <<kpt, op, args, ret, Ts, hostCalls, aoR>>

(* ------------------------------ bounds --------------------------------- *)
MaxImg == 1
MaxWeight == 2
MaxPot == 2

(* Python's None, and the outcome of a call that returned no array *)
None == << >>
NoPath == "none"
Dirs == 1..3

(* --------------------------- complex numbers --------------------------- *)
CAdd(a, b) == <<a[1] + b[1], a[2] + b[2]>>
CMul(a, b) == <<a[1] * b[1] - a[2] * b[2], a[1] * b[2] + a[2] * b[1]>>
CConj(a) == <<a[1], -a[2]>>
CScale(s, a) == <<s * a[1], s * a[2]>>
CZero == <<0, 0>>

(* sum of f[1] .. f[n] of integers / of complex numbers *)
RECURSIVE SumTo(_, _)
SumTo(f, n) == IF n = 0 THEN 0 ELSE f[n] + SumTo(f, n - 1)

RECURSIVE CSumTo(_, _)
CSumTo(f, n) == IF n = 0 THEN CZero ELSE CAdd(f[n], CSumTo(f, n - 1))

Abs(x) == IF x < 0 THEN -x ELSE x
Sign(x) == IF x < 0 THEN -1 ELSE IF x > 0 THEN 1 ELSE 0

(* ------------------------------ arrays --------------------------------- *)
(* A value-mode orbital array is [dtype, gga |-> FALSE, v |-> [p -> [i -> *)
(* complex]]]; a gradient-mode one has gga |-> TRUE and v |-> [n \in 0..3  *)
(* -> that].  dtype is the numpy dtype of the array.                       *)

(* ================= the cell and the real-space evaluator ================ *)
(* cell.h : lattice matrix, cell.nimgs : image counts, cell.nao_nr().      *)
Dot3(a, b) == a[1] * b[1] + a[2] * b[2] + a[3] * b[3]
MatVec(h, T) == <<Dot3(h[1], T), Dot3(h[2], T), Dot3(h[3], T)>>
VSub(a, b) == <<a[1] - b[1], a[2] - b[2], a[3] - b[3]>>

(* basis function centres of the cell and the radius of their support *)
Centres == <<(<<0, 0, 0>>), (<<1, 0, 0>>)>>
Support == {0, 1, 2}

NaoNr == Len(Centres)

Dist1(r, c) == Abs(r[1] - c[1]) + Abs(r[2] - c[2]) + Abs(r[3] - c[3])

(* value of real basis function mu at r: a bump around its centre *)
HostBasis(r, mu) ==
    LET d == Dist1(r, Centres[mu])
    IN  IF d \in Support THEN 3 - d ELSE 0

(* x/y/z derivative of the bump *)
HostBasisGrad(r, mu, dir) ==
    LET d == Dist1(r, Centres[mu])
    IN  IF d \in Support THEN -Sign(r[dir] - Centres[mu][dir]) ELSE 0

(* pyscf.dft.numint.eval_ao: real values (and gradients) on the grid *)
HostEvalAO(coords, isgga) ==
    LET val == [p \in 1..Len(coords) |->
                  [mu \in 1..NaoNr |-> HostBasis(coords[p], mu)]]
        grad(dir) == [p \in 1..Len(coords) |->
                  [mu \in 1..NaoNr |-> HostBasisGrad(coords[p], mu, dir)]]
    IN  IF isgga
        THEN [dtype |-> "float64", gga |-> TRUE,
              v |-> [n \in 0..3 |-> IF n = 0 THEN val ELSE grad(n)]]
        ELSE [dtype |-> "float64", gga |-> FALSE, v |-> val]

(* ================================ eval_ao =============================== *)
(* kpt is None: kpt = np.zeros([3,1]) *)
KptOrZero(k) == IF k = None THEN <<0, 0, 0>> ELSE k

(* mutant: range(-n, n), the upper end left out *)
ImgRange_HalfOpen(n) == (-n)..(n - 1)

(* range(-n, n+1) *)
ImgRange(n) == (-n)..n

(* the triple at position idx of the nested i, j, k loops *)
LoopTriple(nimgs, idx) ==
    LET nj == Cardinality(ImgRange(nimgs[2]))
        nk == Cardinality(ImgRange(nimgs[3]))
        z  == idx - 1
    IN  <<(z \div (nj * nk)) - nimgs[1],
          ((z \div nk) % nj) - nimgs[2],
          (z % nk) - nimgs[3]>>

LoopCount(nimgs) ==
    Cardinality(ImgRange(nimgs[1])) * Cardinality(ImgRange(nimgs[2]))
        * Cardinality(ImgRange(nimgs[3]))

(* mutant: the cutoff test with < for <= *)
InCutoff_Strict(T, nimgs) == 3 * Dot3(T, T) < Dot3(nimgs, nimgs)

(* i**2+j**2+k**2 <= 1./3*np.dot(nimgs,nimgs).  The double 1./3 times an  *)
(* integer N < 2^50 rounds to N/3 exactly when 3 divides N and to a        *)
(* non-integer otherwise, so the test on integers is 3*(..) <= N.          *)
InCutoff(T, nimgs) == 3 * Dot3(T, T) <= Dot3(nimgs, nimgs)

ImageList(nimgs) ==
    LET all == [idx \in 1..LoopCount(nimgs) |-> LoopTriple(nimgs, idx)]
        keep(T) == /\ T[1] \in ImgRange(nimgs[1])
                   /\ T[2] \in ImgRange(nimgs[2])
                   /\ T[3] \in ImgRange(nimgs[3])
                   /\ InCutoff(T, nimgs)
    IN  SelectSeq(all, keep)

(* np.exp(1j*np.dot(kpt.T,L)) for k = q*pi/2: the power i^(q.L) *)
Phase(q, L) ==
    LET e == Dot3(q, L) % 4
    IN  CASE e = 0 -> <<1, 0>>
          [] e = 1 -> <<0, 1>>
          [] e = 2 -> <<-1, 0>>
          [] e = 3 -> <<0, -1>>

ShiftCoords(coords, L) == [p \in 1..Len(coords) |-> VSub(coords[p], L)]

(* a float64 array seen as complex values with zero imaginary part *)
CastLayer(layer) ==
    [p \in 1..Len(layer) |-> [i \in 1..Len(layer[p]) |-> <<layer[p][i], 0>>]]

CastComplex(a) ==
    [dtype |-> "complex128", gga |-> a.gga,
     v |-> IF a.gga THEN [n \in 0..3 |-> CastLayer(a.v[n])]
                    ELSE CastLayer(a.v)]

(* the loop "for T in Ts: aoR += phase * host(coords - L)": hosts[t] is    *)
(* the evaluator's output for image t, and each element of the zero buffer *)
(* receives the terms phase(t) * hosts[t] in the order of Ts               *)
ImageSum(cell, coords, q, isgga, TsList) ==
    LET n     == Len(TsList)
        L     == [t \in 1..n |-> MatVec(cell.h, TsList[t])]
        ph    == [t \in 1..n |-> Phase(q, L[t])]
        hosts == [t \in 1..n |->
                    CastComplex(HostEvalAO(ShiftCoords(coords, L[t]), isgga)).v]
        total(m) ==
            [p \in 1..Len(coords) |->
               [i \in 1..NaoNr |->
                  CAdd(CZero,
                       CSumTo([t \in 1..n |->
                                 CMul(ph[t], IF isgga THEN hosts[t][m][p][i]
                                                      ELSE hosts[t][p][i])],
                              n))]]
    IN  IF isgga THEN [m \in 0..3 |-> total(m)] ELSE total(0)

(* mutant: the dtype follows the values, float64 when no phase is complex *)
AoDtype_FromValues(v) ==
    LET real(layer) == \A p \in 1..Len(layer) : \A i \in 1..Len(layer[p]) :
                          layer[p][i][2] = 0
    IN  IF 0 \in DOMAIN v
        THEN IF \A m \in 0..3 : real(v[m]) THEN "float64" ELSE "complex128"
        ELSE IF real(v) THEN "float64" ELSE "complex128"

(* dtype of the buffer np.zeros(..., np.complex128), kept by += *)
AoDtype(v) == "complex128"

eval_ao(cell, coords, k, isgga) ==
    LET q      == KptOrZero(k)
        TsList == ImageList(cell.nimgs)
        v      == ImageSum(cell, coords, q, isgga, TsList)
    IN  [dtype |-> AoDtype(v), gga |-> isgga, v |-> v]

(* the coordinates handed to the real-space evaluator, call by call *)
eval_ao_calls(cell, coords) ==
    LET TsList == ImageList(cell.nimgs)
    IN  [n \in 1..Len(TsList) |-> ShiftCoords(coords, MatVec(cell.h, TsList[n]))]

(* ======================= contraction primitives ======================== *)
(* non0tab is None: numpy.ones(...), every shell active.  A table is a     *)
(* function [shell -> BOOLEAN] (one grid block, one shell per AO).         *)
Non0(non0tab, i) == IF non0tab = None THEN TRUE ELSE non0tab[i]

(* pyscf.dft.numint._dot_ao_dm: the real product ao . dm, skipping the     *)
(* shells the table marks empty                                            *)
dot_ao_dm(ao, dm, non0tab) ==
    [p \in 1..Len(ao) |->
       [j \in 1..Len(dm) |->
          SumTo([i \in 1..Len(dm) |->
                   IF Non0(non0tab, i) THEN ao[p][i] * dm[i][j] ELSE 0],
                Len(dm))]]

(* pyscf.dft.numint._dot_ao_ao: the real product ao1.T . ao2 *)
dot_ao_ao(ao1, ao2, non0tab) ==
    LET nao == Len(ao1[1])
    IN  [i \in 1..nao |->
           [j \in 1..nao |->
              IF Non0(non0tab, i) /\ Non0(non0tab, j)
              THEN SumTo([p \in 1..Len(ao1) |-> ao1[p][i] * ao2[p][j]], Len(ao1))
              ELSE 0]]

(* numpy.einsum('pi,pi->p', a, b) *)
einsum_pi_pi_p(a, b) ==
    [p \in 1..Len(a) |->
       SumTo([i \in 1..Len(a[p]) |-> a[p][i] * b[p][i]], Len(a[p]))]

(* .real and .imag of a layer [p -> [i -> complex]] or of a matrix *)
RealPart(layer) ==
    [p \in 1..Len(layer) |-> [i \in 1..Len(layer[p]) |-> layer[p][i][1]]]

ImagPart(layer) ==
    [p \in 1..Len(layer) |-> [i \in 1..Len(layer[p]) |-> layer[p][i][2]]]

(* ================================ eval_rho ============================== *)
(* The row built from the layer bra and the layer ket:                     *)
(*   c_rr = ket_re.dm_re, c_ri = ket_im.dm_re, c_ir = ket_re.dm_im,        *)
(*   c_ii = ket_im.dm_im,                                                  *)
(*   bra_im.c_ri + bra_re.c_rr + bra_im.c_ir - bra_re.c_ii                 *)
FourTerm(bra, ket, dm, non0tab) ==
    LET dm_re  == RealPart(dm)
        dm_im  == ImagPart(dm)
        bra_re == RealPart(bra)
        bra_im == ImagPart(bra)
        c_rr == dot_ao_dm(RealPart(ket), dm_re, non0tab)
        c_ri == dot_ao_dm(ImagPart(ket), dm_re, non0tab)
        c_ir == dot_ao_dm(RealPart(ket), dm_im, non0tab)
        c_ii == dot_ao_dm(ImagPart(ket), dm_im, non0tab)
        t1 == einsum_pi_pi_p(bra_im, c_ri)
        t2 == einsum_pi_pi_p(bra_re, c_rr)
        t3 == einsum_pi_pi_p(bra_im, c_ir)
        t4 == einsum_pi_pi_p(bra_re, c_ii)
    IN  [p \in 1..Len(bra) |-> t1[p] + t2[p] + t3[p] - t4[p]]

(* rho[i] for i in 1..3: ao_re, ao_im are rebound to ao[i] before both the *)
(* contractions c1_* and the einsum, and the row is doubled                *)
GradRow(ao, i, dm, non0tab) ==
    LET row == FourTerm(ao.v[i], ao.v[i], dm, non0tab)
    IN  [p \in 1..Len(row) |-> row[p] * 2]

(* "ngrids, nao = ao[0].shape" / "ngrids, nao = ao.shape" unpack two       *)
(* values: they fail unless the array has the rank isgga asks for          *)
ShapeOk(ao, isgga) == ao.gga = isgga

eval_rho(ao, dm, non0tab, isgga) ==
    IF ~ShapeOk(ao, isgga)
    THEN [status |-> "ValueError", value |-> None, path |-> NoPath]
    ELSE IF isgga
    THEN [status |-> "ok", path |-> "complex",
          value |-> [n \in 0..3 |->
                       IF n = 0 THEN FourTerm(ao.v[0], ao.v[0], dm, non0tab)
                                ELSE GradRow(ao, n, dm, non0tab)]]
    ELSE [status |-> "ok", path |-> "complex",
          value |-> FourTerm(ao.v, ao.v, dm, non0tab)]

(* ================================ eval_mat ============================== *)
(* mutant: the factor .5 left out *)
Half_Missing(x) == x

(* .5 * x, exact on the even products the grid weights give *)
Half(x) == x \div 2

Transpose(m) == [i \in 1..Len(m) |-> [j \in 1..Len(m) |-> m[j][i]]]

ConjMat(m) == [i \in 1..Len(m) |-> [j \in 1..Len(m[i]) |-> CConj(m[i][j])]]

MatAdd(a, b) == [i \in 1..Len(a) |-> [j \in 1..Len(a[i]) |-> CAdd(a[i][j], b[i][j])]]

(* mutant: mat + mat.T, the conjugation left out *)
Symmetrize_NoConj(mat) == MatAdd(mat, Transpose(mat))

(* return mat + mat.T.conj() *)
Symmetrize(mat) == MatAdd(mat, ConjMat(Transpose(mat)))

(* wv[0] = weight*vrho*.5 ; wv[1:] = rho[1:]*(weight*vsigma*2) *)
WeightRow(n, p, weight, rho, vrho, vsigma) ==
    IF n = 0 THEN Half(weight[p] * vrho[p])
             ELSE rho.v[n][p] * (weight[p] * vsigma[p] * 2)

(* aow in gradient mode: numpy.einsum('npi,np->pi', ao, wv) *)
WeightedGGA(ao, weight, rho, vrho, vsigma) ==
    [p \in 1..Len(ao.v[0]) |->
       [i \in 1..Len(ao.v[0][p]) |->
          CSumTo([m \in 1..4 |->
                    CScale(WeightRow(m - 1, p, weight, rho, vrho, vsigma),
                           ao.v[m - 1][p][i])], 4)]]

(* aow_re, aow_im in value mode: ao * (.5*weight*vrho).reshape(-1,1) *)
WeightedLDA(ao, weight, vrho) ==
    [p \in 1..Len(ao.v) |->
       [i \in 1..Len(ao.v[p]) |->
          CScale(Half(weight[p] * vrho[p]), ao.v[p][i])]]

(* mat_re, mat_im from the four real contractions; mat = mat_re + 1j*mat_im *)
FourContraction(ao0, aow, non0tab) ==
    LET ao_re  == RealPart(ao0)
        ao_im  == ImagPart(ao0)
        aow_re == RealPart(aow)
        aow_im == ImagPart(aow)
        rr == dot_ao_ao(ao_re, aow_re, non0tab)
        ii == dot_ao_ao(ao_im, aow_im, non0tab)
        ri == dot_ao_ao(ao_re, aow_im, non0tab)
        ir == dot_ao_ao(ao_im, aow_re, non0tab)
    IN  [i \in 1..Len(rr) |->
           [j \in 1..Len(rr) |->
              <<rr[i][j] + ii[i][j], ri[i][j] - ir[i][j]>>]]

(* the branch taken when ao[0].dtype == numpy.complex128 *)
ComplexPath(ao, weight, rho, vrho, vsigma, non0tab, isgga) ==
    IF isgga
    THEN IF vsigma = None \/ rho.ndim # 2
         THEN [status |-> "AssertionError", value |-> None, path |-> "complex"]
         ELSE [status |-> "ok", path |-> "complex",
               value |-> Symmetrize(FourContraction(ao.v[0],
                            WeightedGGA(ao, weight, rho, vrho, vsigma), non0tab))]
    ELSE [status |-> "ok", path |-> "complex",
          value |-> Symmetrize(FourContraction(ao.v,
                       WeightedLDA(ao, weight, vrho), non0tab))]

(* pyscf.dft.numint.eval_mat, the real-arithmetic routine: the same       *)
(* weighting on real arrays, mat = ao.T.aow, return mat + mat.T.  It       *)
(* unpacks ao.shape as isgga says and asserts vsigma and rho.ndim in       *)
(* gradient mode.                                                          *)
HostEvalMat(ao, weight, rho, vrho, vsigma, non0tab, isgga) ==
    IF ao.gga # isgga
    THEN [status |-> "ValueError", value |-> None, path |-> "host"]
    ELSE IF isgga /\ (vsigma = None \/ rho.ndim # 2)
    THEN [status |-> "AssertionError", value |-> None, path |-> "host"]
    ELSE LET a   == RealPart(IF isgga THEN ao.v[0] ELSE ao.v)
             aow == RealPart(IF isgga
                             THEN WeightedGGA(ao, weight, rho, vrho, vsigma)
                             ELSE WeightedLDA(ao, weight, vrho))
             mat == dot_ao_ao(a, aow, non0tab)
         IN  [status |-> "ok", path |-> "host",
              value |-> [i \in 1..Len(mat) |->
                           [j \in 1..Len(mat) |-> <<mat[i][j] + mat[j][i], 0>>]]]

(* the else branch: the host routine with vsigma=None, non0tab=None,       *)
(* isgga=False whatever the caller passed                                  *)
RealFallback(ao, weight, rho, vrho, vsigma, non0tab, isgga) ==
    HostEvalMat(ao, weight, rho, vrho, None, None, FALSE)

eval_mat(ao, weight, rho, vrho, vsigma, non0tab, isgga) ==
    IF ~ShapeOk(ao, isgga)
    THEN [status |-> "ValueError", value |-> None, path |-> NoPath]
    ELSE IF ao.dtype = "complex128"
    THEN ComplexPath(ao, weight, rho, vrho, vsigma, non0tab, isgga)
    ELSE RealFallback(ao, weight, rho, vrho, vsigma, non0tab, isgga)

(* ============================== input sets ============================= *)
Bool == {TRUE, FALSE}

(* values of complex orbitals, of real orbitals, of gradient rows *)
AOVals == {<<a, b>> : a \in {0, 1}, b \in {0, 1}}
RealAOVals == {<<a, 0>> : a \in {0, 1}}
GradVals == {<<1, 0>>, <<0, 1>>}
RealGradVals == {<<1, 0>>, <<2, 0>>}
DirVecs == {<<1, 0, 0>>, <<0, 1, 0>>, <<0, 0, 1>>, <<1, -1, 2>>}

ValsOf(dtype) == IF dtype = "complex128" THEN AOVals ELSE RealAOVals
GradValsOf(dtype) == IF dtype = "complex128" THEN GradVals ELSE RealGradVals

Dtypes == {"complex128", "float64"}

Layers(n, vals) == [1..n -> [1..NaoNr -> vals]]

ValueArrays(dtype, n) ==
    {[dtype |-> dtype, gga |-> FALSE, v |-> a] : a \in Layers(n, ValsOf(dtype))}

(* gradient-mode arrays: a value row, and gradient rows dir[n] * g *)
GradArrays(dtype, n) ==
    {[dtype |-> dtype, gga |-> TRUE,
      v |-> [m \in 0..3 |->
               IF m = 0 THEN x[1]
               ELSE [p \in 1..n |-> [i \in 1..NaoNr |-> CScale(x[3][m], x[2][p][i])]]]] :
       x \in Layers(n, ValsOf(dtype)) \X Layers(n, GradValsOf(dtype)) \X DirVecs}

(* a non-zero-shell table may mark a shell empty only where every row of   *)
(* the array vanishes                                                      *)
ShellEmpty(ao, i) ==
    IF ao.gga
    THEN \A m \in 0..3 : \A p \in 1..Len(ao.v[m]) : ao.v[m][p][i] = CZero
    ELSE \A p \in 1..Len(ao.v) : ao.v[p][i] = CZero

Tables(ao) ==
    {None} \cup {t \in [1..NaoNr -> Bool] : \A i \in 1..NaoNr : ~t[i] => ShellEmpty(ao, i)}

(* density matrices over two basis functions *)
DiagVals == {<<0, 0>>, <<1, 0>>}
OffVals == {<<0, 0>>, <<1, 0>>, <<0, 1>>, <<0, -1>>}

DMs == {<< <<d[1], d[2]>>, <<d[3], d[4]>> >> :
          d \in DiagVals \X OffVals \X OffVals \X DiagVals}

IsHermitian(m) == \A i \in 1..Len(m) : \A j \in 1..Len(m) : m[i][j] = CConj(m[j][i])

Weights == {2 * w : w \in 1..MaxWeight}
PotVals == {-1} \cup (1..MaxPot)

(* grid sizes: gradient-mode arrays are drawn on one grid point *)
RhoGrids == {1, 2}
GradGrids == {1}
MatGrids == {1, 2}

(* density arrays handed to eval_mat: ndim 1, or ndim 2 with gradient rows *)
RhoGradVecs == {<<1, 0, 0>>, <<1, -1, 2>>}

Rhos(n, gga) ==
    {[ndim |-> 1, v |-> [p \in 1..n |-> 1]]} \cup
    (IF gga
     THEN {[ndim |-> 2,
            v |-> [m \in 0..3 |-> [p \in 1..n |-> IF m = 0 THEN 1 ELSE g[m]]]] :
             g \in RhoGradVecs}
     ELSE {})

Vsigmas(n) == {None} \cup {[p \in 1..n |-> c] : c \in 1..MaxPot}

(* k-points q (k = q*pi/2), lattices, grids *)
Kpts == {None} \cup {<<a, b, c>> : a \in {0, 1}, b \in {0, 1}, c \in {0, 1}}

Lattices == {<< <<3, 0, 0>>, <<0, 3, 0>>, <<0, 0, 3>> >>,
             << <<3, 1, 0>>, <<0, 3, 0>>, <<0, 0, 3>> >>}

Points == {<<0, 0, 0>>, <<2, 0, 0>>, <<1, 1, 0>>}
CoordLists == {<<x>> : x \in Points} \cup {<<x, y>> : x \in Points, y \in Points}

ImgCounts == {<<a, b, c>> : a \in 0..MaxImg, b \in 0..MaxImg, c \in 0..MaxImg}

RhoArrays ==
    UNION {ValueArrays("complex128", n) \cup ValueArrays("float64", n) : n \in RhoGrids}
    \cup UNION {GradArrays("complex128", n) : n \in GradGrids}

MatArrays ==
    UNION {ValueArrays(d, n) : d \in Dtypes, n \in MatGrids}
    \cup UNION {GradArrays(d, n) : d \in Dtypes, n \in GradGrids}

ArrayGrids(a) == IF a.gga THEN Len(a.v[0]) ELSE Len(a.v)

(* the calls eval_rho(mol, ao, dm, non0tab, isgga) drawn *)
IsRhoInput(x) ==
    \E a \in RhoArrays : \E d \in DMs : \E t \in Tables(a) : \E g \in Bool :
        x = [ao |-> a, dm |-> d, non0tab |-> t, isgga |-> g]

NoRet == [status |-> "none", value |-> None, path |-> NoPath]

(* ===================== eval_rho as a pure function ===================== *)
InitRho ==
    /\ kpt = None
    /\ op = "idle"
    /\ IsRhoInput(args)
    /\ ret = NoRet
    /\ Ts = << >>
    /\ hostCalls = << >>
    /\ aoR = None

Call_eval_rho ==
    /\ op = "idle"
    /\ op' = "eval_rho"
    /\ ret' = eval_rho(args.ao, args.dm, args.non0tab, args.isgga)
    /\ UNCHANGED <<kpt, args, Ts, hostCalls, aoR>>

NextRho == Call_eval_rho

SpecRho == InitRho /\ [][NextRho]_vars

(* ===================== eval_mat as a pure function ===================== *)
(* the calls eval_mat(mol, ao, weight, rho, vrho, vsigma, non0tab, isgga) drawn *)
IsMatInput(x) ==
    \E a \in MatArrays :
      LET n == ArrayGrids(a)
      IN  \E w \in [1..n -> Weights] : \E vr \in [1..n -> PotVals] :
          \E vs \in Vsigmas(n) : \E r \in Rhos(n, a.gga) :
          \E t \in Tables(a) : \E g \in Bool :
            x = [ao |-> a, weight |-> w, rho |-> r, vrho |-> vr, vsigma |-> vs,
                 non0tab |-> t, isgga |-> g]

InitMat ==
    /\ kpt = None
    /\ op = "idle"
    /\ IsMatInput(args)
    /\ ret = NoRet
    /\ Ts = << >>
    /\ hostCalls = << >>
    /\ aoR = None

Call_eval_mat ==
    /\ op = "idle"
    /\ op' = "eval_mat"
    /\ ret' = eval_mat(args.ao, args.weight, args.rho, args.vrho, args.vsigma,
                       args.non0tab, args.isgga)
    /\ UNCHANGED <<kpt, args, Ts, hostCalls, aoR>>

NextMat == Call_eval_mat

SpecMat == InitMat /\ [][NextMat]_vars

(* ====================== eval_ao as a pure function ===================== *)
IsAOInput(x) ==
    \E n \in ImgCounts : \E h \in Lattices : \E c \in CoordLists :
    \E k \in Kpts : \E g \in Bool :
        x = [cell |-> [nimgs |-> n, h |-> h], coords |-> c, kpt |-> k, isgga |-> g]

InitAO ==
    /\ kpt = None
    /\ op = "idle"
    /\ IsAOInput(args)
    /\ ret = NoRet
    /\ Ts = << >>
    /\ hostCalls = << >>
    /\ aoR = None

Call_eval_ao ==
    /\ op = "idle"
    /\ op' = "eval_ao"
    /\ Ts' = ImageList(args.cell.nimgs)
    /\ hostCalls' = eval_ao_calls(args.cell, args.coords)
    /\ ret' = [status |-> "ok", path |-> NoPath,
               value |-> eval_ao(args.cell, args.coords, args.kpt, args.isgga)]
    /\ UNCHANGED <<kpt, args, aoR>>

NextAO == Call_eval_ao

SpecAO == InitAO /\ [][NextAO]_vars

(* ========================= the adapter _NumInt ========================= *)
(* Init is the state after _NumInt(kpt): self.kpt = kpt.  aoR is the array *)
(* the caller holds from the adapter's last eval_ao.                       *)
AdapterKpts == {None, <<0, 0, 0>>, <<1, 0, 0>>, <<1, 1, 1>>}
AdapterCells == {[nimgs |-> <<n, n, n>>, h |-> h] :
                   n \in {0, MaxImg},
                   h \in {<< <<3, 0, 0>>, <<0, 3, 0>>, <<0, 0, 3>> >>}}
AdapterCoords == {<< <<0, 0, 0>> >>, << <<1, 1, 0>> >>}
AdapterDMs == {<< <<(<<1, 0>>), x>>, <<CConj(x), (<<1, 0>>)>> >> :
                 x \in {<<0, 0>>, <<0, 1>>}}

Init ==
    /\ kpt \in AdapterKpts
    /\ op = "init"
    /\ args = << >>
    /\ ret = NoRet
    /\ Ts = << >>
    /\ hostCalls = << >>
    /\ aoR = None

(* _NumInt.eval_ao: eval_ao(mol, coords, self.kpt, isgga, ...) *)
NumInt_eval_ao ==
    \E c \in AdapterCells : \E x \in AdapterCoords : \E g \in Bool :
        /\ op' = "eval_ao"
        /\ args' = [cell |-> c, coords |-> x, isgga |-> g]
        /\ Ts' = ImageList(c.nimgs)
        /\ hostCalls' = eval_ao_calls(c, x)
        /\ aoR' = eval_ao(c, x, kpt, g)
        /\ ret' = [status |-> "ok", path |-> NoPath, value |-> aoR']
        /\ UNCHANGED kpt

(* _NumInt.eval_rho: eval_rho(mol, ao, dm, non0tab, isgga, verbose) *)
NumInt_eval_rho ==
    /\ aoR # None
    /\ \E d \in AdapterDMs :
        /\ op' = "eval_rho"
        /\ args' = [dm |-> d, isgga |-> aoR.gga]
        /\ ret' = eval_rho(aoR, d, None, aoR.gga)
        /\ UNCHANGED <<kpt, Ts, hostCalls, aoR>>

(* _NumInt.eval_rho2: raise NotImplementedError *)
NumInt_eval_rho2 ==
    /\ op' = "eval_rho2"
    /\ args' = << >>
    /\ ret' = [status |-> "NotImplementedError", value |-> None, path |-> NoPath]
    /\ UNCHANGED <<kpt, Ts, hostCalls, aoR>>

(* mutant: nr_uks inherited from the host class, which returns a value *)
NumInt_nr_uks_Inherited ==
    /\ op' = "nr_uks"
    /\ args' = << >>
    /\ ret' = [status |-> "ok", value |-> <<0>>, path |-> "host"]
    /\ UNCHANGED <<kpt, Ts, hostCalls, aoR>>

(* _NumInt.nr_uks: raise NotImplementedError *)
NumInt_nr_uks ==
    /\ op' = "nr_uks"
    /\ args' = << >>
    /\ ret' = [status |-> "NotImplementedError", value |-> None, path |-> NoPath]
    /\ UNCHANGED <<kpt, Ts, hostCalls, aoR>>

(* _NumInt.eval_mat: eval_mat(mol, ao, weight, rho, vrho, vsigma, ...) on  *)
(* the array the adapter's eval_ao returned                                *)
NumInt_eval_mat ==
    /\ aoR # None
    /\ LET n == ArrayGrids(aoR)
       IN  \E vr \in {-1} : \E vs \in {None, [p \in 1..n |-> 1]} :
           \E r \in Rhos(n, aoR.gga) :
             /\ op' = "eval_mat"
             /\ args' = [weight |-> [p \in 1..n |-> 2], rho |-> r,
                         vrho |-> [p \in 1..n |-> vr], vsigma |-> vs,
                         isgga |-> aoR.gga]
             /\ ret' = eval_mat(aoR, args'.weight, r, args'.vrho, vs, None, aoR.gga)
             /\ UNCHANGED <<kpt, Ts, hostCalls, aoR>>

(* the host's eval_xc: potential derivatives of a density *)
HostEvalXC(rho, isgga) ==
    LET n == IF isgga THEN Len(rho[0]) ELSE Len(rho)
    IN  [vrho |-> [p \in 1..n |-> -1],
         vsigma |-> IF isgga THEN [p \in 1..n |-> 1] ELSE None]

(* pyscf.dft.numint.nr_rks_vxc(ni, ...) on one grid block: ni.eval_ao,     *)
(* ni.eval_rho, eval_xc, ni.eval_mat                                       *)
HostNrRksVxc(k, cell, coords, weight, dm, isgga) ==
    CHOOSE out \in
        {eval_mat(ao, weight,
                  [ndim |-> IF isgga THEN 2 ELSE 1, v |-> rho],
                  HostEvalXC(rho, isgga).vrho, HostEvalXC(rho, isgga).vsigma,
                  None, isgga) :
           <<ao, rho>> \in {<<a, eval_rho(a, dm, None, isgga).value>> :
                              a \in {eval_ao(cell, coords, k, isgga)}}} : TRUE

(* _NumInt.nr_rks: pyscf.dft.numint.nr_rks_vxc(self, mol, grids, ...) *)
NumInt_nr_rks ==
    \E c \in AdapterCells : \E x \in AdapterCoords : \E g \in Bool :
    \E d \in {dd \in AdapterDMs : dd[1][2] # CZero} :
        /\ op' = "nr_rks"
        /\ args' = [cell |-> c, coords |-> x, dm |-> d, isgga |-> g]
        /\ Ts' = ImageList(c.nimgs)
        /\ hostCalls' = eval_ao_calls(c, x)
        /\ ret' = HostNrRksVxc(kpt, c, x, [p \in 1..Len(x) |-> 2], d, g)
        /\ UNCHANGED <<kpt, aoR>>

Next ==
    \/ NumInt_eval_ao
    \/ NumInt_eval_rho
    \/ NumInt_eval_rho2
    \/ NumInt_nr_rks
    \/ NumInt_nr_uks
    \/ NumInt_eval_mat

Spec == Init /\ [][Next]_vars

(* =============================== claims ================================ *)
ImageSet == {Ts[n] : n \in 1..Len(Ts)}
Neg3(T) == <<-T[1], -T[2], -T[3]>>

(* C10: the image set enumerated by eval_ao contains (0,0,0), every        *)
(* enumerated triple satisfies 3*(i^2+j^2+k^2) <= nimgs.nimgs, and the set *)
(* is closed under negation.                                               *)
C10_ImageSet ==
    op = "eval_ao" =>
        LET n == args.cell.nimgs
        IN  /\ <<0, 0, 0>> \in ImageSet
            /\ \A T \in ImageSet :
                 3 * (T[1] * T[1] + T[2] * T[2] + T[3] * T[3])
                   <= n[1] * n[1] + n[2] * n[2] + n[3] * n[3]
            /\ \A T \in ImageSet : Neg3(T) \in ImageSet

(* a call whose cutoff keeps several images and drops some of the box *)
C10_Witness ==
    /\ op = "eval_ao"
    /\ Len(Ts) > 1
    /\ Len(Ts) < LoopCount(args.cell.nimgs)
    /\ <<0, 0, 0>> \in ImageSet

(* C4: with kpt None and nimgs = (0,0,0), eval_ao calls the real-space     *)
(* evaluator exactly once, with the unshifted coordinates, and returns its *)
(* output cast to complex with zero imaginary part, in both modes.         *)
C4_GammaSingleImage ==
    (op = "eval_ao" /\ args.kpt = None /\ args.cell.nimgs = <<0, 0, 0>>) =>
        /\ hostCalls = <<args.coords>>
        /\ ret.status = "ok"
        /\ ret.value = CastComplex(HostEvalAO(args.coords, args.isgga))

C4_Witness ==
    /\ op = "eval_ao"
    /\ args.kpt = None
    /\ args.cell.nimgs = <<0, 0, 0>>
    /\ args.isgga
    /\ hostCalls = <<args.coords>>
    /\ ret.value.v[0][1][1] # CZero
    /\ ret.value.v[1][1][2] # CZero

(* C1: the matrix eval_mat returns equals its conjugate transpose.         *)
C1_Hermitian ==
    (op = "eval_mat" /\ ret.status = "ok") => IsHermitian(ret.value)

(* a gradient-mode call on complex orbitals whose contraction, before the  *)
(* symmetrization, is not Hermitian                                        *)
C1_Witness ==
    /\ op = "eval_mat"
    /\ ret.status = "ok"
    /\ args.isgga
    /\ args.ao.dtype = "complex128"
    /\ ~IsHermitian(FourContraction(args.ao.v[0],
            WeightedGGA(args.ao, args.weight, args.rho, args.vrho, args.vsigma),
            args.non0tab))
    /\ IsHermitian(ret.value)

(* the weighted overlap S[i][j] = sum_p weight[p] * conj(ao[p][i]) * ao[p][j] *)
Overlap(ao, weight, i, j) ==
    CSumTo([p \in 1..Len(ao) |->
              CScale(weight[p], CMul(CConj(ao[p][i]), ao[p][j]))], Len(ao))

IsConstant(f) == \A p \in 1..Len(f) : f[p] = f[1]

(* C5: in value mode with complex orbitals and vrho = c at every grid      *)
(* point, eval_mat returns exactly c * S, S the weighted overlap.          *)
C5_ConstantPotential ==
    (/\ op = "eval_mat"
     /\ ~args.isgga
     /\ ~args.ao.gga
     /\ args.ao.dtype = "complex128"
     /\ IsConstant(args.vrho)) =>
        /\ ret.status = "ok"
        /\ \A i \in 1..NaoNr : \A j \in 1..NaoNr :
             ret.value[i][j] =
                CScale(args.vrho[1], Overlap(args.ao.v, args.weight, i, j))

(* two grid points with different weights, c = -1, and an overlap with a   *)
(* non-real off-diagonal element                                           *)
C5_Witness ==
    /\ op = "eval_mat"
    /\ ~args.isgga
    /\ ~args.ao.gga
    /\ args.ao.dtype = "complex128"
    /\ Len(args.ao.v) = 2
    /\ args.weight[1] # args.weight[2]
    /\ IsConstant(args.vrho)
    /\ args.vrho[1] = -1
    /\ ret.status = "ok"
    /\ ret.value[1][2][2] # 0
    /\ ret.value[1][1][1] # 0

(* C7: a call in gradient mode with vsigma None, or with a density without *)
(* the gradient axis, ends in an assertion failure and returns no matrix,  *)
(* for any orbital array.                                                  *)
C7_AssertionFailure ==
    (/\ op = "eval_mat"
     /\ args.isgga
     /\ args.ao.gga
     /\ (args.vsigma = None \/ args.rho.ndim # 2)) =>
        /\ ret.status = "AssertionError"
        /\ ret.value = None

(* C8: for a real-valued orbital array the matrix obtained through the     *)
(* delegation equals what the complex four-contraction path gives for the  *)
(* same weight, rho, vrho, vsigma, non0tab and isgga.                      *)
C8_FallbackEquivalent ==
    LET cp == ComplexPath(args.ao, args.weight, args.rho, args.vrho,
                          args.vsigma, args.non0tab, args.isgga)
    IN  (/\ op = "eval_mat"
         /\ args.ao.dtype = "float64"
         /\ ShapeOk(args.ao, args.isgga)
         /\ cp.status = "ok") =>
            /\ ret.status = "ok"
            /\ ret.value = cp.value

(* what holds of the fallback: in value mode it gives the complex path's matrix *)
Aux_FallbackValueMode ==
    (/\ op = "eval_mat"
     /\ args.ao.dtype = "float64"
     /\ ~args.isgga
     /\ ~args.ao.gga) =>
        LET cp == ComplexPath(args.ao, args.weight, args.rho, args.vrho,
                              args.vsigma, args.non0tab, args.isgga)
        IN  /\ ret.status = "ok"
            /\ ret.value = cp.value

(* had the else branch passed the caller's vsigma, non0tab and isgga on,   *)
(* the host routine would agree with the complex path on every real array  *)
Aux_HostAgrees ==
    (/\ op = "eval_mat"
     /\ args.ao.dtype = "float64"
     /\ ShapeOk(args.ao, args.isgga)) =>
        LET cp == ComplexPath(args.ao, args.weight, args.rho, args.vrho,
                              args.vsigma, args.non0tab, args.isgga)
            h  == HostEvalMat(args.ao, args.weight, args.rho, args.vrho,
                              args.vsigma, args.non0tab, args.isgga)
        IN  h.status = cp.status /\ h.value = cp.value

(* sum over i, j of x[i] * dm[i][j] * y[j] *)
Contract(x, dm, y) ==
    CSumTo([i \in 1..Len(dm) |->
              CSumTo([j \in 1..Len(dm) |-> CMul(CMul(x[i], dm[i][j]), y[j])],
                     Len(dm))], Len(dm))

ConjRow(x) == [i \in 1..Len(x) |-> CConj(x[i])]

(* C2: for Hermitian dm, value-mode eval_rho returns at each grid point    *)
(* the contraction sum_ij conj(ao[p][i]) * dm[i][j] * ao[p][j], which has  *)
(* zero imaginary part.                                                    *)
C2_DirectContraction ==
    (/\ op = "eval_rho"
     /\ ~args.isgga
     /\ ~args.ao.gga
     /\ IsHermitian(args.dm)) =>
        /\ ret.status = "ok"
        /\ \A p \in 1..Len(args.ao.v) :
             LET z == Contract(ConjRow(args.ao.v[p]), args.dm, args.ao.v[p])
             IN  z[2] = 0 /\ ret.value[p] = z[1]

(* what the code computes: the real part of sum_ij ao[p][i]*dm[i][j]*conj(ao[p][j]) *)
Aux_RhoValueMode ==
    (/\ op = "eval_rho"
     /\ ~args.isgga
     /\ ~args.ao.gga) =>
        /\ ret.status = "ok"
        /\ \A p \in 1..Len(args.ao.v) :
             ret.value[p] = Contract(args.ao.v[p], args.dm, ConjRow(args.ao.v[p]))[1]

(* C3: in gradient mode with Hermitian dm, rho[d] (d = 1,2,3) is           *)
(* 2 * Re(sum_ij ao[0][p][i] * dm[i][j] * conj(ao[d][p][j])), and rho[0]   *)
(* is the value-mode result computed from ao[0] alone.                     *)
C3_GradientProductRule ==
    (/\ op = "eval_rho"
     /\ args.isgga
     /\ args.ao.gga
     /\ IsHermitian(args.dm)) =>
        /\ ret.status = "ok"
        /\ ret.value[0] =
             eval_rho([dtype |-> args.ao.dtype, gga |-> FALSE, v |-> args.ao.v[0]],
                      args.dm, args.non0tab, FALSE).value
        /\ \A d \in Dirs : \A p \in 1..Len(args.ao.v[0]) :
             ret.value[d][p] =
                2 * Contract(args.ao.v[0][p], args.dm, ConjRow(args.ao.v[d][p]))[1]

(* what the code computes: each gradient row contracted with itself, doubled *)
Aux_RhoGradientMode ==
    (/\ op = "eval_rho"
     /\ args.isgga
     /\ args.ao.gga) =>
        /\ ret.status = "ok"
        /\ \A d \in Dirs : \A p \in 1..Len(args.ao.v[0]) :
             ret.value[d][p] =
                2 * Contract(args.ao.v[d][p], args.dm, ConjRow(args.ao.v[d][p]))[1]

(* C6: every call of eval_rho2 and of nr_uks on the adapter ends in        *)
(* NotImplementedError: it returns no value, does not reach the host, and  *)
(* leaves the bound kpt unchanged.                                         *)
C6_Unimplemented ==
    [][(op' \in {"eval_rho2", "nr_uks"}) =>
         /\ ret'.status = "NotImplementedError"
         /\ ret'.value = None
         /\ ret'.path = NoPath
         /\ hostCalls' = hostCalls
         /\ kpt' = kpt]_vars

(* nr_uks called on an adapter bound to a k-point, after an eval_ao *)
C6_Witness ==
    /\ op = "nr_uks"
    /\ kpt # None
    /\ aoR # None
    /\ ret.status = "NotImplementedError"

(* C9: an array returned by the adapter's eval_ao is complex128 and, given *)
(* to the adapter's eval_mat (directly, or by the driver of nr_rks), is    *)
(* processed by the four-contraction path, never by the host fallback.     *)
C9_ComplexPath ==
    /\ (aoR # None => aoR.dtype = "complex128")
    /\ (op \in {"eval_mat", "nr_rks"} => ret.path = "complex")

AllReal(layer) ==
    \A p \in 1..Len(layer) : \A i \in 1..Len(layer[p]) : layer[p][i][2] = 0

(* eval_mat on an array with every phase 1: kpt None, no imaginary part *)
C9_Witness ==
    /\ op = "eval_mat"
    /\ kpt = None
    /\ ~aoR.gga
    /\ AllReal(aoR.v)
    /\ ret.status = "ok"
    /\ ret.path = "complex"

====
